---- MODULE Spec2Model ----
(***************************************************************************)
(* Model of the pin-archive bot (src/bot.py): the per-guild config store   *)
(* (pickle files behind a per-guild, per-key cache), the reaction-added    *)
(* and pins-added event handlers with their suspension points, the native  *)
(* pin slot, and the init / archive commands with their webhook calls.     *)
(***************************************************************************)
EXTENDS Integers, Sequences, FiniteSets, TLC

(***************************************************************************)
(* Bounds of the model.                                                    *)
(***************************************************************************)
NumGuilds == 2
NumReactHandlers == 2
MaxReacts == 2
MaxArchiveCmds == 1
MaxCfgOps == 3
MaxInits == 3

(***************************************************************************)
(* Program constants.                                                      *)
(***************************************************************************)
DEFAULT_REACTS == 7
\* maybe_unpin: "if len(pins) > 48"
UnpinLeeway == 48
\* the platform's native pin limit named in maybe_unpin's docstring
PinLimit == 50

Guilds == 1..NumGuilds
\* Channels 1 and 2 belong to guild 1, channel 3 to guild 2.
Channels == 1..3
GuildOf(c) == IF c <= 2 THEN 1 ELSE 2
\* One message, sent in channel 1: coroutines working on different messages
\* share nothing but the guild's config and the channel's pin list.
Messages == {1}
\* Message m was sent in channel ChannelOf(m).
ChannelOf(m) == ((m - 1) % 3) + 1
Keys == {"archive_channel", "webhook_url", "reaction_count"}

(***************************************************************************)
(* Python values held by the config store: None, int, str.  A webhook URL  *)
(* is a str made of the API prefix and the webhook's id.                   *)
(***************************************************************************)
None == [t |-> "None"]
PyInt(n) == [t |-> "int", n |-> n]
PyStr(s) == [t |-> "str", s |-> s]
IsNone(v) == v.t = "None"
\* Python truthiness, as used by "if not webhook" and "if old_webhook_url".
FalsyValue(v) ==
    \/ v.t = "None"
    \/ v.t = "int" /\ v.n = 0
    \/ v.t = "str" /\ v.s = <<>>
Truthy(v) == ~FalsyValue(v)
WebhookUrl(id) == PyStr(<<"https://discord.com/api/webhooks", id>>)
\* discord.Webhook.from_url: the id parsed back out of the URL.
WebhookFromUrl(url) == url.s[2]

VARIABLES
    storage,        \* persisted files: <<guild dir, key>> -> pickled blob or NoFile
    config_cache,   \* MainCog.config_cache: guild id -> (key -> value)
    reactions,      \* platform: message -> pushpin reaction [count, me]
    exists,         \* platform: message -> not deleted
    pins,           \* platform: channel -> pinned message ids, newest first
    webhooks,       \* platform: webhook id -> [channel, alive]
    pendingReact,   \* reaction-added events not yet dispatched, per message
    pendingPinsAdd, \* pins_add system messages not yet dispatched, per message
    reactH,         \* running on_raw_reaction_add coroutines
    msgH,           \* running on_message coroutine
    initH,          \* running init command coroutine
    markCalls,      \* add_reaction calls by the bot, per message
    pinCalls,       \* message.pin() calls, per message
    sendCalls,      \* webhook.send calls, per message and caller
    notices,        \* "not initialized" notices sent, per message and caller
    archiveRuns,    \* archive_message calls, per message
    chanTexts,      \* texts the bot sent, per channel
    whLog,          \* webhook delete / create calls, in order
    lastSaved,      \* last value given to save_config, per guild and key
    lastRead,       \* the read_config call made since the last save, and its result
    ops,            \* number of commands and direct store calls so far
    postsSeen,      \* messages the bot sent that came back to on_message
    fmtMsg,         \* the message handed to archive_message's formatting
    fmtOut          \* the payload it built, or the error it raised

cfgVars == <<storage, config_cache>>
platVars == <<reactions, exists, pins, webhooks>>
evVars == <<pendingReact, pendingPinsAdd>>
hVars == <<reactH, msgH, initH>>
obsVars == <<markCalls, pinCalls, sendCalls, notices, archiveRuns, chanTexts, whLog>>
histVars == <<lastSaved, lastRead, ops>>
fmtVars == <<postsSeen, fmtMsg, fmtOut>>
vars == <<cfgVars, platVars, evVars, hVars, obsVars, histVars, fmtVars>>

(***************************************************************************)
(* GuildConfigStore: guild_save_config / guild_read_config (pickle files)  *)
(* and MainCog.read_config / save_config (the cache in front of them).     *)
(***************************************************************************)
NoFile == [t |-> "NoFile"]
\* pickle.dump / pickle.load of a None, int or str value.
PickleDump(v) == [t |-> "pickle", type |-> v.t, body |-> v]
PickleLoad(blob) == blob.body
\* str(guild_id) and os.path.join(config_path, guild_id, key)
FilePath(g, k) == <<ToString(g), k>>
Paths == {FilePath(g, k) : g \in Guilds, k \in Keys}

guild_save_config(st, g, k, v) == [st EXCEPT ![FilePath(g, k)] = PickleDump(v)]

guild_read_config(st, g, k) ==
    IF st[FilePath(g, k)] = NoFile THEN None ELSE PickleLoad(st[FilePath(g, k)])

\* "if guild.id not in self.config_cache: self.config_cache[guild.id] = {}"
EnsureGuild(cache, g) ==
    IF g \in DOMAIN cache THEN cache ELSE [x \in DOMAIN cache \cup {g} |->
                                             IF x = g THEN << >> ELSE cache[x]]
CacheHit(cache, g, k) == g \in DOMAIN cache /\ k \in DOMAIN cache[g]
CachePut(cache, g, k, v) ==
    LET c == EnsureGuild(cache, g)
    IN [c EXCEPT ![g] = [x \in DOMAIN c[g] \cup {k} |-> IF x = k THEN v ELSE c[g][x]]]

\* read_config: the value returned ...
ReadValue(cache, st, g, k) ==
    IF CacheHit(cache, g, k) THEN cache[g][k] ELSE guild_read_config(st, g, k)
\* ... and the cache it leaves behind (a miss stores what the file gave,
\* None included).
ReadCache(cache, st, g, k) ==
    IF CacheHit(cache, g, k) THEN cache
    ELSE CachePut(cache, g, k, guild_read_config(st, g, k))

\* A bug that writes the file and leaves the cached value alone.
SaveCacheSkipped(cache, g, k, v) == EnsureGuild(cache, g)
\* save_config: cache first, then the file.
SaveCache(cache, g, k, v) == CachePut(cache, g, k, v)
SaveStorage(st, g, k, v) == guild_save_config(st, g, k, v)

\* get_react_count
get_react_count(cache, st, g) ==
    LET val == ReadValue(cache, st, g, "reaction_count")
    IN IF IsNone(val) THEN DEFAULT_REACTS ELSE val.n

\* A bug that never recognises the archive channel.
IsArchiveChannelNever(c, v) == FALSE
\* "raw_reaction.channel_id == self.read_config(guild, 'archive_channel')"
IsArchiveChannel(c, v) == v.t = "int" /\ v.n = c

(***************************************************************************)
(* Small updates of the per-message counters.                              *)
(***************************************************************************)
Callers == {"react", "pins_add", "cmd"}
Bump(f, m) == [f EXCEPT ![m] = @ + 1]
BumpBy(f, m, src) == [f EXCEPT ![m][src] = @ + 1]
ZeroPerMsg == [m \in Messages |-> 0]
ZeroPerCaller == [m \in Messages |-> [c \in Callers |-> 0]]
Remove(seq, x) == SelectSeq(seq, LAMBDA y : y # x)
InSeq(seq, x) == \E i \in 1..Len(seq) : seq[i] = x

(***************************************************************************)
(* archive_message.  With the archive channel unset it sends the notice    *)
(* and returns; with no webhook it returns silently; otherwise it posts    *)
(* the payload through the stored webhook (a blocking call).               *)
(***************************************************************************)
NotInitText == "Bot not initialized. Use +init <pin archive channel> to initialize."

\* A bug that skips the unset-channel branch.
ArchiveChannelUnsetNever(channel_id) == FALSE
\* "if channel_id is None"
ArchiveChannelUnset(channel_id) == IsNone(channel_id)
\* "if not webhook"
NoWebhook(webhook) == ~Truthy(webhook)

ArchiveChannelRead(m) ==
    ReadValue(config_cache, storage, GuildOf(ChannelOf(m)), "archive_channel")
ArchiveCache1(m) ==
    ReadCache(config_cache, storage, GuildOf(ChannelOf(m)), "archive_channel")
ArchiveWebhookRead(m) ==
    ReadValue(ArchiveCache1(m), storage, GuildOf(ChannelOf(m)), "webhook_url")
ArchiveCache2(m) ==
    ReadCache(ArchiveCache1(m), storage, GuildOf(ChannelOf(m)), "webhook_url")
WebhookAlive(url) ==
    /\ WebhookFromUrl(url) \in DOMAIN webhooks
    /\ webhooks[WebhookFromUrl(url)].alive

ArchiveOutcome(m) ==
    IF ArchiveChannelUnset(ArchiveChannelRead(m)) THEN "notice"
    ELSE IF NoWebhook(ArchiveWebhookRead(m)) THEN "no_webhook"
    ELSE IF WebhookAlive(ArchiveWebhookRead(m)) THEN "sent"
    ELSE "send_failed"

archive_message(m, src) ==
    /\ archiveRuns' = Bump(archiveRuns, m)
    /\ config_cache' = IF ArchiveOutcome(m) = "notice" THEN ArchiveCache1(m)
                                                        ELSE ArchiveCache2(m)
    /\ notices' = IF ArchiveOutcome(m) = "notice" THEN BumpBy(notices, m, src)
                                                   ELSE notices
    /\ chanTexts' = IF ArchiveOutcome(m) = "notice"
                       THEN [chanTexts EXCEPT ![ChannelOf(m)] = @ \cup {NotInitText}]
                       ELSE chanTexts
    /\ sendCalls' = IF ArchiveOutcome(m) \in {"sent", "send_failed"}
                       THEN BumpBy(sendCalls, m, src)
                       ELSE sendCalls
\* webhook.send raising (the webhook is gone) ends the coroutine with the error.
PcAfterArchive(m) == IF ArchiveOutcome(m) = "send_failed" THEN "raised" ELSE "done"

(***************************************************************************)
(* The platform: users react, messages get deleted.                        *)
(***************************************************************************)
\* Every message starts two pushpins short of the default threshold.
InitCount == DEFAULT_REACTS - 2
\* Pushpin reactions of users (the bot's own marker not counted).
UserCount(m) == reactions[m].count - (IF reactions[m].me THEN 1 ELSE 0)

\* A user adds a pushpin: the count grows and the gateway queues the event.
UserReacts(m) ==
    /\ exists[m]
    /\ UserCount(m) < InitCount + MaxReacts
    /\ reactions' = [reactions EXCEPT ![m].count = @ + 1]
    /\ pendingReact' = Bump(pendingReact, m)
    /\ UNCHANGED <<fmtVars, cfgVars, exists, pins, webhooks, pendingPinsAdd, hVars,
                   obsVars, histVars>>

\* A message is deleted; the platform drops it from its channel's pins.
DeleteMessage(m) ==
    /\ exists[m]
    /\ exists' = [exists EXCEPT ![m] = FALSE]
    /\ pins' = [pins EXCEPT ![ChannelOf(m)] = Remove(@, m)]
    /\ UNCHANGED <<fmtVars, cfgVars, reactions, webhooks, evVars, hVars, obsVars, histVars>>

(***************************************************************************)
(* on_raw_reaction_add, one action per stretch between suspension points.  *)
(***************************************************************************)
ReactHandlers == 1..NumReactHandlers
Free(pc) == pc \in {"idle", "done", "raised"}
IdleReact ==
    [pc |-> "idle", msg |-> 0, fetched |-> FALSE, count |-> 0, me |-> FALSE,
     fetchFailed |-> FALSE,
     didMark |-> FALSE, didPin |-> FALSE, didSend |-> FALSE, didNotice |-> FALSE,
     pinsAfter |-> 0]

\* A bug that drops the marker guard.
AlreadyPinnedNever(message) == FALSE
\* already_pinned: a reaction of the bot's own is on the fetched message.
already_pinned(message) == message.me
\* An off-by-one bug in the threshold comparison.
ReachedThresholdOffByOne(count, threshold) == count + 1 >= threshold
\* "if reaction.count >= self.get_react_count(message.guild)"
ReachedThreshold(count, threshold) == count >= threshold
\* get_message_by_id: the fetched message, or None on NotFound / Forbidden.
get_message_by_id(m) == IF exists[m] THEN reactions[m] ELSE None

\* Lines 257-265: skip the archive channel, else start fetching the message.
ReactDispatch(h, m) ==
    LET g == GuildOf(ChannelOf(m))
        archive == ReadValue(config_cache, storage, g, "archive_channel")
    IN /\ pendingReact[m] > 0
       /\ Free(reactH[h].pc)
       \* coroutines are interchangeable: the event takes the first free slot
       /\ \A i \in ReactHandlers : i < h => ~Free(reactH[i].pc)
       /\ pendingReact' = [pendingReact EXCEPT ![m] = @ - 1]
       /\ config_cache' = ReadCache(config_cache, storage, g, "archive_channel")
       /\ reactH' = [reactH EXCEPT ![h] =
              [IdleReact EXCEPT !.msg = m,
                                !.pc = IF IsArchiveChannel(ChannelOf(m), archive)
                                         THEN "done" ELSE "fetch"]]
       /\ UNCHANGED <<fmtVars, storage, platVars, pendingPinsAdd, msgH, initH, obsVars,
                      histVars>>

\* Lines 265-273: the fetch returns; the reaction, the guard and the threshold.
ReactFetch(h) ==
    LET m == reactH[h].msg
        g == GuildOf(ChannelOf(m))
        message == get_message_by_id(m)
    IN /\ reactH[h].pc = "fetch"
       /\ IF message = None
            THEN \* "message.reactions" on None raises AttributeError
                 /\ reactH' = [reactH EXCEPT ![h].pc = "raised",
                                             ![h].fetchFailed = TRUE]
                 /\ UNCHANGED config_cache
            ELSE IF message.count = 0 \/ already_pinned(message)
            THEN /\ reactH' = [reactH EXCEPT ![h].pc = "done",
                                             ![h].fetched = TRUE,
                                             ![h].count = message.count,
                                             ![h].me = message.me]
                 /\ UNCHANGED config_cache
            ELSE /\ reactH' = [reactH EXCEPT
                       ![h].pc = IF ReachedThreshold(message.count,
                                        get_react_count(config_cache, storage, g))
                                   THEN "add_reaction" ELSE "done",
                       ![h].fetched = TRUE,
                       ![h].count = message.count,
                       ![h].me = message.me]
                 /\ config_cache' = ReadCache(config_cache, storage, g, "reaction_count")
       /\ UNCHANGED <<fmtVars, storage, platVars, evVars, msgH, initH, obsVars, histVars>>

\* set_pinned: add_reaction; on HTTPException retry on the first reaction of
\* the fetched message (here the pushpin), whose failure propagates.
ReactAddReaction(h) ==
    LET m == reactH[h].msg
    IN /\ reactH[h].pc = "add_reaction"
       /\ IF exists[m]
            THEN /\ markCalls' = Bump(markCalls, m)
                 /\ reactH' = [reactH EXCEPT ![h].pc = "pin", ![h].didMark = TRUE]
                 /\ IF reactions[m].me
                      THEN UNCHANGED <<reactions, pendingReact>>
                      ELSE /\ reactions' = [reactions EXCEPT ![m].count = @ + 1,
                                                             ![m].me = TRUE]
                           /\ pendingReact' = Bump(pendingReact, m)
            ELSE /\ markCalls' = [markCalls EXCEPT ![m] = @ + 2]
                 /\ reactH' = [reactH EXCEPT ![h].pc = "raised"]
                 /\ UNCHANGED <<reactions, pendingReact>>
       /\ UNCHANGED <<fmtVars, cfgVars, exists, pins, webhooks, pendingPinsAdd, msgH, initH,
                      pinCalls, sendCalls, notices, archiveRuns, chanTexts, whLog,
                      histVars>>

\* message.pin(): fails on a deleted message or a full pin list; a new pin
\* makes the platform post the pins_add system message.
PinFails(m) ==
    \/ ~exists[m]
    \/ ~InSeq(pins[ChannelOf(m)], m) /\ Len(pins[ChannelOf(m)]) >= PinLimit

\* Lines 275-276: the pin returns, then archive_message runs.
ReactPin(h) ==
    LET m == reactH[h].msg
        c == ChannelOf(m)
    IN /\ reactH[h].pc = "pin"
       /\ pinCalls' = Bump(pinCalls, m)
       /\ IF PinFails(m)
            THEN /\ reactH' = [reactH EXCEPT ![h].pc = "raised"]
                 /\ UNCHANGED <<pins, pendingPinsAdd, config_cache, notices,
                                archiveRuns, chanTexts, sendCalls>>
            ELSE /\ IF InSeq(pins[c], m)
                      THEN UNCHANGED <<pins, pendingPinsAdd>>
                      ELSE /\ pins' = [pins EXCEPT ![c] = <<m>> \o @]
                           /\ pendingPinsAdd' = Bump(pendingPinsAdd, m)
                 /\ archive_message(m, "react")
                 /\ reactH' = [reactH EXCEPT
                       ![h].pc = PcAfterArchive(m),
                       ![h].didPin = TRUE,
                       ![h].pinsAfter = Len(pins'[c]),
                       ![h].didSend = ArchiveOutcome(m) \in {"sent", "send_failed"},
                       ![h].didNotice = ArchiveOutcome(m) = "notice"]
       /\ UNCHANGED <<fmtVars, storage, reactions, exists, webhooks, pendingReact, msgH,
                      initH, markCalls, whLog, histVars>>

(***************************************************************************)
(* on_message for a pins_add system message, and maybe_unpin.  The system  *)
(* message sits in the channel of the pinned message it refers to.         *)
(***************************************************************************)
IdleMsg == [pc |-> "idle", msg |-> 0, target |-> 0]

\* maybe_unpin: "if len(pins) > 48"
AtPinLeeway(pinned) == Len(pinned) > UnpinLeeway
\* "pins[-1]": the oldest pin of the newest-first list
OldestPin(pinned) == pinned[Len(pinned)]

\* Lines 282-291: the type and archive-channel checks, then the fetch starts.
MsgDispatch(m) ==
    LET g == GuildOf(ChannelOf(m))
        archive == ReadValue(config_cache, storage, g, "archive_channel")
    IN /\ pendingPinsAdd[m] > 0
       /\ Free(msgH.pc)
       /\ pendingPinsAdd' = [pendingPinsAdd EXCEPT ![m] = @ - 1]
       /\ config_cache' = ReadCache(config_cache, storage, g, "archive_channel")
       /\ msgH' = [IdleMsg EXCEPT !.msg = m,
                                  !.pc = IF IsArchiveChannel(ChannelOf(m), archive)
                                           THEN "done" ELSE "fetch"]
       /\ UNCHANGED <<fmtVars, storage, platVars, pendingReact, reactH, initH, obsVars,
                      histVars>>

\* Line 291: channel.fetch_message; NotFound is not caught here.
MsgFetch ==
    /\ msgH.pc = "fetch"
    /\ msgH' = [msgH EXCEPT !.pc = IF exists[msgH.msg] THEN "pins" ELSE "raised"]
    /\ UNCHANGED <<fmtVars, cfgVars, platVars, evVars, reactH, initH, obsVars, histVars>>

\* Lines 248-249 and 294: the pin list arrives; unpin the oldest at the
\* leeway, else go on to archive_message.
MsgPins ==
    LET m == msgH.msg
        pinned == pins[ChannelOf(m)]
    IN /\ msgH.pc = "pins"
       /\ IF AtPinLeeway(pinned)
            THEN /\ msgH' = [msgH EXCEPT !.pc = "unpin", !.target = OldestPin(pinned)]
                 /\ UNCHANGED <<config_cache, notices, archiveRuns, chanTexts, sendCalls>>
            ELSE /\ archive_message(m, "pins_add")
                 /\ msgH' = [msgH EXCEPT !.pc = PcAfterArchive(m)]
       /\ UNCHANGED <<fmtVars, storage, platVars, evVars, reactH, initH, markCalls, pinCalls,
                      whLog, histVars>>

\* Lines 250 and 294: the unpin returns, then archive_message runs.
MsgUnpin ==
    LET m == msgH.msg
        c == ChannelOf(m)
    IN /\ msgH.pc = "unpin"
       /\ IF msgH.target \in Messages /\ ~exists[msgH.target]
            THEN /\ msgH' = [msgH EXCEPT !.pc = "raised"]
                 /\ UNCHANGED <<pins, config_cache, notices, archiveRuns, chanTexts,
                                sendCalls>>
            ELSE /\ pins' = [pins EXCEPT ![c] = Remove(@, msgH.target)]
                 /\ archive_message(m, "pins_add")
                 /\ msgH' = [msgH EXCEPT !.pc = PcAfterArchive(m)]
       /\ UNCHANGED <<fmtVars, storage, reactions, exists, webhooks, evVars, reactH, initH,
                      markCalls, pinCalls, whLog, histVars>>

(***************************************************************************)
(* The archive command.                                                    *)
(***************************************************************************)
ArchiveCmd(m, manage_messages) ==
    /\ notices[m]["cmd"] + sendCalls[m]["cmd"] < MaxArchiveCmds
    /\ exists[m]
    /\ IF manage_messages
         THEN archive_message(m, "cmd")
         ELSE UNCHANGED <<config_cache, notices, archiveRuns, chanTexts, sendCalls>>
    /\ UNCHANGED <<fmtVars, storage, platVars, evVars, hVars, markCalls, pinCalls, whLog,
                   histVars>>

(***************************************************************************)
(* The promotion engine's specification.  The bot starts with guild 1      *)
(* either never initialized or initialized on channel 2, with or without   *)
(* a stored threshold, and with messages and pins that predate it.         *)
(***************************************************************************)
NoFiles == [p \in Paths |-> NoFile]
InitializedFiles ==
    [NoFiles EXCEPT ![FilePath(1, "archive_channel")] = PickleDump(PyInt(2)),
                    ![FilePath(1, "webhook_url")] = PickleDump(WebhookUrl(1))]
\* n pins older than the bot, newest first.
OldPins(n) == [i \in 1..n |-> 100 + (n - i)]
NoMessage == [content |-> << >>, embeds |-> << >>, attachments |-> << >>]
NoPayload == [t |-> "none"]
NoRead == [g |-> 0, k |-> "", hit |-> FALSE, v |-> None]
NeverSaved == [t |-> "never"]

InitStores ==
    /\ config_cache = << >>
    /\ lastSaved = [p \in Paths |-> NeverSaved]
    /\ lastRead = NoRead
    /\ ops = 0
    /\ postsSeen = 0
    /\ fmtMsg = NoMessage
    /\ fmtOut = NoPayload
InitObserved ==
    /\ markCalls = ZeroPerMsg
    /\ pinCalls = ZeroPerMsg
    /\ sendCalls = ZeroPerCaller
    /\ notices = ZeroPerCaller
    /\ archiveRuns = ZeroPerMsg
    /\ chanTexts = [c \in Channels |-> {}]
    /\ whLog = << >>
InitHandlers ==
    /\ reactH = [h \in ReactHandlers |-> IdleReact]
    /\ msgH = IdleMsg
    /\ initH = [pc |-> "idle", guild |-> 0, ctx |-> 0, chan |-> 0, old |-> None,
                logStart |-> 0, created |-> 0]

Init ==
    /\ InitStores
    /\ InitObserved
    /\ InitHandlers
    /\ \E initialized \in BOOLEAN, stored \in {0, DEFAULT_REACTS - 1} :
          /\ storage = [(IF initialized THEN InitializedFiles ELSE NoFiles) EXCEPT
                 ![FilePath(1, "reaction_count")] =
                     IF stored = 0 THEN NoFile ELSE PickleDump(PyInt(stored))]
          /\ webhooks = IF initialized THEN <<[channel |-> 2, alive |-> TRUE]>>
                                       ELSE << >>
    /\ reactions = [m \in Messages |-> [count |-> InitCount, me |-> FALSE]]
    /\ exists = [m \in Messages |-> TRUE]
    /\ \E n \in {0, UnpinLeeway, PinLimit - 1, PinLimit} :
          pins = [c \in Channels |-> IF c = 1 THEN OldPins(n) ELSE << >>]
    /\ pendingReact = ZeroPerMsg
    /\ pendingPinsAdd = ZeroPerMsg

Next ==
    \/ \E m \in Messages : UserReacts(m)
    \/ \E m \in Messages : DeleteMessage(m)
    \/ \E h \in ReactHandlers, m \in Messages : ReactDispatch(h, m)
    \/ \E h \in ReactHandlers : ReactFetch(h)
    \/ \E h \in ReactHandlers : ReactAddReaction(h)
    \/ \E h \in ReactHandlers : ReactPin(h)
    \/ \E m \in Messages : MsgDispatch(m)
    \/ MsgFetch
    \/ MsgPins
    \/ MsgUnpin
    \/ \E m \in Messages, perm \in BOOLEAN : ArchiveCmd(m, perm)

Spec == Init /\ [][Next]_vars

(***************************************************************************)
(* Properties of the promotion engine, checked under Spec.                 *)
(***************************************************************************)
GuildOfMsg(m) == GuildOf(ChannelOf(m))
Threshold(m) == get_react_count(config_cache, storage, GuildOfMsg(m))
\* The guild of m was never initialized: no archive channel stored or cached.
Uninitialized(m) ==
    IsNone(ReadValue(config_cache, storage, GuildOfMsg(m), "archive_channel"))
NoEffects(r) == ~r.didMark /\ ~r.didPin /\ ~r.didSend /\ ~r.didNotice

\* C1: an on_raw_reaction_add run whose fetched message carries a pushpin
\* count strictly below the guild's threshold returns without a marker
\* reaction, a native pin or an archive post.
C1_BelowThresholdNoEffect ==
    \A h \in ReactHandlers :
        (reactH[h].fetched /\ reactH[h].count < Threshold(reactH[h].msg))
            => reactH[h].pc = "done" /\ NoEffects(reactH[h])
\* A run that saw a pushpin count one short of the threshold, and returned.
C1_Witness ==
    \E h \in ReactHandlers :
        /\ reactH[h].fetched /\ ~reactH[h].me /\ reactH[h].pc = "done"
        /\ reactH[h].count > 0
        /\ reactH[h].count + 1 = Threshold(reactH[h].msg)

\* C2: an on_raw_reaction_add run whose fetched message already carries the
\* bot's own reaction returns without a native pin call or an archive post
\* (and without touching the marker), however often the event is delivered.
C2_GuardIdempotent ==
    \A h \in ReactHandlers :
        (reactH[h].fetched /\ reactH[h].me)
            => reactH[h].pc = "done" /\ NoEffects(reactH[h])
\* A qualifying event (count at the threshold) met the guard after a promotion.
C2_Witness ==
    \E h \in ReactHandlers :
        /\ reactH[h].fetched /\ reactH[h].me /\ reactH[h].pc = "done"
        /\ reactH[h].count >= Threshold(reactH[h].msg)
        /\ pinCalls[reactH[h].msg] = 1
        /\ sendCalls[reactH[h].msg]["react"] = 1

\* C3: over reaction-added events and pins_add notifications (the archive
\* command aside) a message is posted to the archive at most once.
C3_ArchivedAtMostOnce ==
    \A m \in Messages : sendCalls[m]["react"] + sendCalls[m]["pins_add"] <= 1

\* C4: overlapping on_raw_reaction_add runs for one message make at most one
\* native pin call and at most one archive post between them.
C4_NoOverlapDuplicates ==
    \A m \in Messages : pinCalls[m] <= 1 /\ sendCalls[m]["react"] <= 1

\* C5: a promotion makes room before it pins: right after the new native pin
\* of a promotion the channel holds at most 49 pins.
C5_CapacityBeforePin ==
    \A h \in ReactHandlers :
        reactH[h].didPin => reactH[h].pinsAfter <= PinLimit - 1

\* C6: in a guild that was never initialized, every run of archive_message
\* (archive command or promotion) sends exactly the instructional text to the
\* message's channel, and no webhook call is made.
C6_UninitializedNotice ==
    \A m \in Messages :
        Uninitialized(m) =>
            /\ \A src \in Callers : sendCalls[m][src] = 0
            /\ notices[m]["react"] + notices[m]["pins_add"] + notices[m]["cmd"]
                   = archiveRuns[m]
            /\ chanTexts[ChannelOf(m)] =
                   IF archiveRuns[m] > 0 THEN {NotInitText} ELSE {}
\* Both an archive command and a promotion reached archive_message there.
C6_Witness ==
    \E m \in Messages :
        /\ Uninitialized(m)
        /\ notices[m]["cmd"] >= 1
        /\ notices[m]["react"] >= 1
        /\ NotInitText \in chanTexts[ChannelOf(m)]

\* C7: in a guild with no archive channel a reaction-added event leads to no
\* marker reaction and no native pin, and to at most one notice per message.
C7_UnconfiguredTerminal ==
    \A m \in Messages :
        Uninitialized(m) =>
            /\ markCalls[m] = 0
            /\ pinCalls[m] = 0
            /\ notices[m]["react"] + notices[m]["pins_add"] <= 1

\* C10: a failed message fetch does not make on_raw_reaction_add raise.
C10_FetchFailureNonFatal ==
    \A h \in ReactHandlers : reactH[h].fetchFailed => reactH[h].pc # "raised"

(***************************************************************************)
(* The config store on its own: save_config and read_config called with    *)
(* any guild, key and value, and the process restarting with an empty      *)
(* cache (MainCog.__init__).                                               *)
(***************************************************************************)
CfgValues == {None, PyInt(DEFAULT_REACTS), WebhookUrl(1)}

CfgSave(g, k, v) ==
    /\ ops < MaxCfgOps
    /\ ops' = ops + 1
    /\ config_cache' = SaveCache(config_cache, g, k, v)
    /\ storage' = SaveStorage(storage, g, k, v)
    /\ lastSaved' = [lastSaved EXCEPT ![FilePath(g, k)] = v]
    \* lastRead holds a read only while no save has followed it
    /\ lastRead' = NoRead
    /\ UNCHANGED <<fmtVars, platVars, evVars, hVars, obsVars>>

CfgRead(g, k) ==
    /\ ops < MaxCfgOps
    /\ ops' = ops + 1
    /\ lastRead' = [g |-> g, k |-> k, hit |-> CacheHit(config_cache, g, k),
                    v |-> ReadValue(config_cache, storage, g, k)]
    /\ config_cache' = ReadCache(config_cache, storage, g, k)
    /\ UNCHANGED <<fmtVars, storage, platVars, evVars, hVars, obsVars, lastSaved>>

\* "self.config_cache = {}": a new process starts from the files alone.
CfgRestart ==
    /\ config_cache # << >>
    /\ config_cache' = << >>
    /\ UNCHANGED <<fmtVars, storage, platVars, evVars, hVars, obsVars, histVars>>

InitQuietPlatform ==
    /\ reactions = [m \in Messages |-> [count |-> InitCount, me |-> FALSE]]
    /\ exists = [m \in Messages |-> TRUE]
    /\ pins = [c \in Channels |-> << >>]
    /\ webhooks = << >>
    /\ pendingReact = ZeroPerMsg
    /\ pendingPinsAdd = ZeroPerMsg

InitCfg ==
    /\ InitStores
    /\ InitObserved
    /\ InitHandlers
    /\ InitQuietPlatform
    /\ storage = NoFiles

NextCfg ==
    \/ \E g \in Guilds, k \in Keys, v \in CfgValues : CfgSave(g, k, v)
    \/ \E g \in Guilds, k \in Keys : CfgRead(g, k)
    \/ CfgRestart

SpecCfg == InitCfg /\ [][NextCfg]_vars

\* C8: read_config(guild, key) returns the value of the latest
\* save_config(guild, key, value), from the cache or, after the cache was
\* emptied, from the persisted file.
C8_RoundTrip ==
    (lastRead.g # 0 /\ lastSaved[FilePath(lastRead.g, lastRead.k)] # NeverSaved)
        => lastRead.v = lastSaved[FilePath(lastRead.g, lastRead.k)]
\* A read of a saved key that missed the cache (so the cache had been emptied
\* since the save) and returned the saved value from the file.
C8_Witness ==
    /\ lastRead.g # 0
    /\ ~lastRead.hit
    /\ ops = 3
    /\ lastRead.v = WebhookUrl(1)
    /\ lastSaved[FilePath(lastRead.g, lastRead.k)] = WebhookUrl(1)

(***************************************************************************)
(* The init command.  Webhook.delete is a blocking call; create_webhook    *)
(* is awaited, so the command has one suspension point before the new URL  *)
(* is saved.  One init runs at a time here.                                *)
(***************************************************************************)
ChannelsOf(g) == {c \in Channels : GuildOf(c) = g}
IdleInit ==
    [pc |-> "idle", guild |-> 0, ctx |-> 0, chan |-> 0, old |-> None,
     logStart |-> 0, created |-> 0]
Append1(log, call) == log \o <<call>>
InitText(c) == "Set archive channel to #" \o ToString(c) \o " and created webhook"

\* A bug that never deletes the previous webhook.
HasOldWebhookNever(old_webhook_url) == FALSE
\* "if old_webhook_url"
HasOldWebhook(old_webhook_url) == Truthy(old_webhook_url)

\* Lines 196-210: the permission check, the archive channel saved, the old
\* webhook deleted, create_webhook started.
InitStart(g, ctx_channel, pin_channel, administrator) ==
    LET cache1 == SaveCache(config_cache, g, "archive_channel", PyInt(pin_channel))
        storage1 == SaveStorage(storage, g, "archive_channel", PyInt(pin_channel))
        old == ReadValue(cache1, storage1, g, "webhook_url")
        run == [IdleInit EXCEPT !.guild = g, !.ctx = ctx_channel,
                                !.chan = pin_channel, !.old = old,
                                !.logStart = Len(whLog)]
    IN /\ ops < MaxInits
       /\ Free(initH.pc)
       /\ ops' = ops + 1
       /\ IF ~administrator
            THEN UNCHANGED <<cfgVars, webhooks, whLog, initH, lastSaved>>
            ELSE /\ config_cache' = ReadCache(cache1, storage1, g, "webhook_url")
                 /\ storage' = storage1
                 /\ lastSaved' = [lastSaved EXCEPT
                        ![FilePath(g, "archive_channel")] = PyInt(pin_channel)]
                 /\ IF ~HasOldWebhook(old)
                      THEN /\ initH' = [run EXCEPT !.pc = "create"]
                           /\ UNCHANGED <<webhooks, whLog>>
                      ELSE /\ whLog' = Append1(whLog, <<"delete", WebhookFromUrl(old)>>)
                           /\ IF WebhookAlive(old)
                                THEN /\ webhooks' = [webhooks EXCEPT
                                            ![WebhookFromUrl(old)].alive = FALSE]
                                     /\ initH' = [run EXCEPT !.pc = "create"]
                                ELSE \* deleting a webhook that is gone raises NotFound
                                     /\ initH' = [run EXCEPT !.pc = "raised"]
                                     /\ UNCHANGED webhooks
       /\ UNCHANGED <<fmtVars, reactions, exists, pins, evVars, reactH, msgH, markCalls,
                      pinCalls, sendCalls, notices, archiveRuns, chanTexts, lastRead>>

\* Lines 210-217: create_webhook returns (or raises), the URL is saved, the
\* confirmation is sent to the command's channel.
InitCreate(created_ok) ==
    LET g == initH.guild
        id == Len(webhooks) + 1
    IN /\ initH.pc = "create"
       /\ IF created_ok
            THEN /\ webhooks' = Append(webhooks, [channel |-> initH.chan, alive |-> TRUE])
                 /\ whLog' = Append1(whLog, <<"create", id>>)
                 /\ config_cache' = SaveCache(config_cache, g, "webhook_url", WebhookUrl(id))
                 /\ storage' = SaveStorage(storage, g, "webhook_url", WebhookUrl(id))
                 /\ lastSaved' = [lastSaved EXCEPT
                        ![FilePath(g, "webhook_url")] = WebhookUrl(id)]
                 /\ chanTexts' = [chanTexts EXCEPT
                        ![initH.ctx] = @ \cup {InitText(initH.chan)}]
                 /\ initH' = [initH EXCEPT !.pc = "done", !.created = id]
            ELSE /\ whLog' = Append1(whLog, <<"create", 0>>)
                 /\ initH' = [initH EXCEPT !.pc = "raised"]
                 /\ UNCHANGED <<cfgVars, webhooks, chanTexts, lastSaved>>
       /\ UNCHANGED <<fmtVars, reactions, exists, pins, evVars, reactH, msgH, markCalls,
                      pinCalls, sendCalls, notices, archiveRuns, lastRead, ops>>

NextInit ==
    \/ \E g \in Guilds, admin \in BOOLEAN :
          \E ctx \in ChannelsOf(g), c \in ChannelsOf(g) : InitStart(g, ctx, c, admin)
    \/ \E ok \in BOOLEAN : InitCreate(ok)

SpecInit == InitCfg /\ [][NextInit]_vars

\* The webhook calls of the init run that just finished.
RunCalls == SubSeq(whLog, initH.logStart + 1, Len(whLog))

CfgSaveFails(g, k, v) ==
    /\ ops < MaxCfgOps
    /\ ops' = ops + 1
    /\ config_cache' = SaveCache(config_cache, g, k, v)
    /\ lastRead' = NoRead
    /\ UNCHANGED <<fmtVars, storage, platVars, evVars, hVars, obsVars, lastSaved>>

NextCfgFail ==
    \/ \E g \in Guilds, k \in Keys, v \in CfgValues : CfgSave(g, k, v)
    \/ \E g \in Guilds, k \in Keys, v \in CfgValues : CfgSaveFails(g, k, v)
    \/ \E g \in Guilds, k \in Keys : CfgRead(g, k)
    \/ CfgRestart

SpecCfgFail == InitCfg /\ [][NextCfgFail]_vars

\* C11: there is no cache-only state, also after a failed persisted write:
\* a cached value for (guild, key) is the value persisted storage holds, so a
\* later read_config returns the durable value.
C11_NoCacheOnlyState ==
    \A g \in Guilds, k \in Keys :
        CacheHit(config_cache, g, k)
            => config_cache[g][k] = guild_read_config(storage, g, k)

(***************************************************************************)
(* The init command with the archive command running beside it: the        *)
(* archive command can be handled while init is suspended in               *)
(* create_webhook, and after an init that raised.                          *)
(***************************************************************************)
\* With no webhook stored archive_message leaves no trace but the call itself,
\* so the calls bound the command here.
ArchiveCmdBounded(m, manage_messages) ==
    /\ archiveRuns[m] < MaxArchiveCmds
    /\ ArchiveCmd(m, manage_messages)

NextInitArchive ==
    \/ \E g \in Guilds, admin \in BOOLEAN :
          \E ctx \in ChannelsOf(g), c \in ChannelsOf(g) : InitStart(g, ctx, c, admin)
    \/ \E ok \in BOOLEAN : InitCreate(ok)
    \/ \E m \in Messages, perm \in BOOLEAN : ArchiveCmdBounded(m, perm)

SpecInitArchive == InitCfg /\ [][NextInitArchive]_vars

Total(f, m) == f[m]["react"] + f[m]["pins_add"] + f[m]["cmd"]
StoredValue(g, k) == guild_read_config(storage, g, k)

\* C12: archive_message never returns silently: every run either sends the
\* "not initialized" notice to the message's channel or posts to the webhook,
\* in particular when archive_channel is set and webhook_url is not.
C12_NoWebhookNotifies ==
    \A m \in Messages : archiveRuns[m] = Total(notices, m) + Total(sendCalls, m)

\* C19: the persisted config never points at a dead webhook: webhook_url is
\* absent or names a live webhook bound to the stored archive_channel, and
\* archive_channel and webhook_url are present together.
C19_NoDeadWebhook ==
    \A g \in Guilds :
        /\ IsNone(StoredValue(g, "webhook_url")) <=> IsNone(StoredValue(g, "archive_channel"))
        /\ ~IsNone(StoredValue(g, "webhook_url")) =>
              /\ WebhookAlive(StoredValue(g, "webhook_url"))
              /\ IsArchiveChannel(
                     webhooks[WebhookFromUrl(StoredValue(g, "webhook_url"))].channel,
                     StoredValue(g, "archive_channel"))

(***************************************************************************)
(* The config store read by this process while another process writes the  *)
(* files: the write reaches storage and not this process's cache.          *)
(***************************************************************************)
WrittenValues == {PyInt(DEFAULT_REACTS), WebhookUrl(1)}

ExternalWrite(g, k, v) ==
    /\ ops < MaxCfgOps
    /\ ops' = ops + 1
    /\ storage' = guild_save_config(storage, g, k, v)
    /\ lastSaved' = [lastSaved EXCEPT ![FilePath(g, k)] = v]
    /\ lastRead' = NoRead
    /\ UNCHANGED <<fmtVars, config_cache, platVars, evVars, hVars, obsVars>>

NextCfgExt ==
    \/ \E g \in Guilds, k \in Keys, v \in WrittenValues : ExternalWrite(g, k, v)
    \/ \E g \in Guilds, k \in Keys : CfgRead(g, k)
    \/ CfgRestart

SpecCfgExt == InitCfg /\ [][NextCfgExt]_vars

\* C13: an absent result is never cached: a read_config that follows a write
\* of (guild, key) to persisted storage does not return a stale absent.
C13_AbsentNotCached ==
    (lastRead.g # 0 /\ lastSaved[FilePath(lastRead.g, lastRead.k)] # NeverSaved)
        => ~IsNone(lastRead.v)

(***************************************************************************)
(* The threshold commands, interleaved with init.                          *)
(***************************************************************************)
Counts == {-1, 0, 1, DEFAULT_REACTS}
SetText(count) == "Set reaction count to " \o ToString(count) \o " :pushpin:"
GetText(count) == "Reaction count is " \o ToString(count) \o " :pushpin:"

\* Lines 230-238.
setreactcount(g, ctx_channel, count, manage_messages) ==
    /\ ops < MaxCfgOps
    /\ ops' = ops + 1
    /\ IF ~manage_messages
         THEN UNCHANGED <<cfgVars, chanTexts, lastSaved>>
         ELSE /\ config_cache' = SaveCache(config_cache, g, "reaction_count", PyInt(count))
              /\ storage' = SaveStorage(storage, g, "reaction_count", PyInt(count))
              /\ lastSaved' = [lastSaved EXCEPT
                     ![FilePath(g, "reaction_count")] = PyInt(count)]
              /\ chanTexts' = [chanTexts EXCEPT ![ctx_channel] = @ \cup {SetText(count)}]
    /\ UNCHANGED <<fmtVars, platVars, evVars, hVars, markCalls, pinCalls, sendCalls,
                   notices, archiveRuns, whLog, lastRead>>

\* Lines 240-244.
getreactcount(g, ctx_channel) ==
    /\ ops < MaxCfgOps
    /\ ops' = ops + 1
    /\ config_cache' = ReadCache(config_cache, storage, g, "reaction_count")
    /\ chanTexts' = [chanTexts EXCEPT ![ctx_channel] =
                        @ \cup {GetText(get_react_count(config_cache, storage, g))}]
    /\ UNCHANGED <<fmtVars, storage, platVars, evVars, hVars, markCalls, pinCalls,
                   sendCalls, notices, archiveRuns, whLog, lastSaved, lastRead>>

NextThreshold ==
    \/ \E g \in Guilds, count \in Counts, perm \in BOOLEAN :
          \E ctx \in ChannelsOf(g) : setreactcount(g, ctx, count, perm)
    \/ \E g \in Guilds : \E ctx \in ChannelsOf(g) : getreactcount(g, ctx)
    \/ \E g \in Guilds, admin \in BOOLEAN :
          \E ctx \in ChannelsOf(g), c \in ChannelsOf(g) : InitStart(g, ctx, c, admin)
    \/ \E ok \in BOOLEAN : InitCreate(ok)

SpecThreshold == InitCfg /\ [][NextThreshold]_vars

\* C14: after any sequence of setreactcount, init and getreactcount commands
\* the stored reaction threshold of every guild is absent or at least 1, and
\* get_react_count returns at least 1.
C14_ThresholdPositive ==
    \A g \in Guilds :
        /\ IsNone(StoredValue(g, "reaction_count"))
              \/ StoredValue(g, "reaction_count").n >= 1
        /\ get_react_count(config_cache, storage, g) >= 1

(***************************************************************************)
(* The promotion engine in a guild whose archive channel is either the     *)
(* channel of the message or another channel of the guild.                 *)
(***************************************************************************)
ArchiveFiles(c) ==
    [InitializedFiles EXCEPT ![FilePath(1, "archive_channel")] = PickleDump(PyInt(c))]

InitArchiveChannel ==
    /\ InitStores
    /\ InitObserved
    /\ InitHandlers
    /\ reactions = [m \in Messages |-> [count |-> InitCount, me |-> FALSE]]
    /\ exists = [m \in Messages |-> TRUE]
    /\ \E n \in {0, UnpinLeeway} :
          pins = [c \in Channels |-> IF c = 1 THEN OldPins(n) ELSE << >>]
    /\ pendingReact = ZeroPerMsg
    /\ pendingPinsAdd = ZeroPerMsg
    /\ \E c \in ChannelsOf(1) :
          /\ storage = ArchiveFiles(c)
          /\ webhooks = <<[channel |-> c, alive |-> TRUE]>>

SpecArchiveChannel == InitArchiveChannel /\ [][Next]_vars

\* The reaction event of the run came from the guild's archive channel.
InArchiveChannel(m) ==
    StoredValue(GuildOfMsg(m), "archive_channel") = PyInt(ChannelOf(m))

\* C15: an on_raw_reaction_add run for an event in the guild's configured
\* archive channel returns before fetching the message and issues no marker
\* reaction, no native pin and no archive post, whatever the reaction count.
C15_ArchiveChannelIgnored ==
    \A h \in ReactHandlers :
        (reactH[h].msg # 0 /\ InArchiveChannel(reactH[h].msg))
            => /\ reactH[h].pc = "done"
               /\ ~reactH[h].fetched /\ ~reactH[h].fetchFailed
               /\ NoEffects(reactH[h])
               /\ markCalls[reactH[h].msg] = 0
               /\ pinCalls[reactH[h].msg] = 0
               /\ sendCalls[reactH[h].msg]["react"] = 0
\* An event in the archive channel was skipped although the message carries
\* the threshold's count of pushpins.
C15_Witness ==
    \E h \in ReactHandlers :
        /\ reactH[h].msg # 0 /\ InArchiveChannel(reactH[h].msg)
        /\ reactH[h].pc = "done"
        /\ exists[reactH[h].msg]
        /\ reactions[reactH[h].msg].count >= Threshold(reactH[h].msg)

(***************************************************************************)
(* The marker as a record of promotion, checked under Spec.                *)
(***************************************************************************)
NoRunFor(m) == \A h \in ReactHandlers : reactH[h].msg = m => Free(reactH[h].pc)

\* C18: in an initialized guild, whenever no handler for a message is still
\* running and the bot's marker reaction is on the message, the message is
\* natively pinned and an archive post was made for it.
C18_MarkerTruthful ==
    \A m \in Messages :
        (exists[m] /\ reactions[m].me /\ NoRunFor(m) /\ ~Uninitialized(m))
            => /\ InSeq(pins[ChannelOf(m)], m)
               /\ Total(sendCalls, m) >= 1

(***************************************************************************)
(* The payload archive_message builds (lines 146-183) from the content,    *)
(* the embeds and the attachments of the message.  Text is a sequence of   *)
(* characters; an embed's url and thumbnail url are Embed.Empty or text.   *)
(***************************************************************************)
MaxContentLen == 2
MaxEmbeds == 2
MaxAttachments == 2

Chars == {"a", "b"}
SeqsUpTo(S, n) == UNION {[1..k -> S] : k \in 0..n}
EmbedEmpty == [t |-> "empty"]
Text(chars) == [t |-> "text", c |-> chars]
\* Python's "sub in s" on strings.
In(sub, str) ==
    \E i \in 0..(Len(str) - Len(sub)) : SubSeq(str, i + 1, i + Len(sub)) = sub
\* Truth value of a url: Embed.Empty and "" are falsy.
UrlTruthy(url) == url.t = "text" /\ Len(url.c) > 0

\* mimetypes.guess_type(filename)[0]: the type of a known extension, None
\* for a name whose extension is unknown or missing.
MimeType(type, subtype) == [t |-> "mime", type |-> type, subtype |-> subtype]
Filenames == {"a.png", "a.pdf", "a"}
GuessType(filename) ==
    CASE filename = "a.png" -> MimeType("image", "png")
      [] filename = "a.pdf" -> MimeType("application", "pdf")
      [] OTHER -> None

EmbedUrls == {EmbedEmpty, Text(<<"a", "b">>)}
AttachmentUrls == {Text(<<"a">>), Text(<<"b">>)}
EmbedValues == [url : EmbedUrls, thumbnail : EmbedUrls]
AttachmentValues == [url : AttachmentUrls, filename : Filenames]
FmtMessages ==
    [content : SeqsUpTo(Chars, MaxContentLen),
     embeds : SeqsUpTo(EmbedValues, MaxEmbeds),
     attachments : SeqsUpTo(AttachmentValues, MaxAttachments)]

\* Lines 165-171: the first image attachment, found by a scan that calls
\* startswith on the guessed type of each attachment before it.
RECURSIVE ScanImage(_, _)
ScanImage(attachments, i) ==
    IF i > Len(attachments) THEN [raised |-> FALSE, image |-> EmbedEmpty]
    ELSE IF IsNone(GuessType(attachments[i].filename))
    THEN \* None.startswith raises AttributeError
         [raised |-> TRUE, image |-> EmbedEmpty]
    ELSE IF GuessType(attachments[i].filename).type = "image"
    THEN [raised |-> FALSE, image |-> attachments[i].url]
    ELSE ScanImage(attachments, i + 1)

\* Lines 154-171: the main image and the thumbnail.
PickImage(message) ==
    IF Len(message.embeds) > 0
    THEN LET url == message.embeds[1].thumbnail
         IN [raised |-> FALSE,
             image |-> IF UrlTruthy(url) /\ In(url.c, message.content)
                         THEN url ELSE EmbedEmpty,
             thumbnail |-> IF UrlTruthy(url) /\ ~In(url.c, message.content)
                             THEN url ELSE EmbedEmpty]
    ELSE IF Len(message.attachments) > 0
    THEN [raised |-> ScanImage(message.attachments, 1).raised,
          image |-> ScanImage(message.attachments, 1).image,
          thumbnail |-> EmbedEmpty]
    ELSE [raised |-> FALSE, image |-> EmbedEmpty, thumbnail |-> EmbedEmpty]

\* Lines 174-175: one link field per attachment.
LinkFields(attachments) == [i \in 1..Len(attachments) |-> attachments[i].url]

\* A bug that also drops the embeds without a url.
KeepEmbedWithUrlOnly(embed, content) ==
    embed.url.t # "empty" /\ ~In(embed.url.c, content)
\* Lines 181-182: "embed.url is discord.Embed.Empty or embed.url not in
\* message.content".
KeepEmbed(embed, content) ==
    embed.url.t = "empty" \/ ~In(embed.url.c, content)

Raised == [t |-> "raised"]
FormatPayload(message) ==
    IF PickImage(message).raised THEN Raised
    ELSE [t |-> "payload",
          description |-> message.content,
          image |-> PickImage(message).image,
          thumbnail |-> PickImage(message).thumbnail,
          fields |-> LinkFields(message.attachments),
          embeds |-> SelectSeq(message.embeds,
                               LAMBDA e : KeepEmbed(e, message.content))]

\* archive_message on message 1, whose content, embeds and attachments are
\* fmtMsg, in a guild with a live webhook: the payload is built and sent,
\* or the error raised while building it ends the call.
ArchiveFormatted ==
    /\ fmtOut = NoPayload
    /\ ArchiveOutcome(1) = "sent"
    /\ fmtOut' = FormatPayload(fmtMsg)
    /\ IF FormatPayload(fmtMsg) = Raised
         THEN /\ archiveRuns' = Bump(archiveRuns, 1)
              /\ config_cache' = ArchiveCache2(1)
              /\ UNCHANGED <<notices, chanTexts, sendCalls>>
         ELSE archive_message(1, "cmd")
    /\ UNCHANGED <<storage, platVars, evVars, hVars, markCalls, pinCalls, whLog,
                   histVars, postsSeen, fmtMsg>>

InitFormat ==
    /\ config_cache = << >>
    /\ lastSaved = [p \in Paths |-> NeverSaved]
    /\ lastRead = NoRead
    /\ ops = 0
    /\ postsSeen = 0
    /\ InitObserved
    /\ InitHandlers
    /\ reactions = [m \in Messages |-> [count |-> InitCount, me |-> FALSE]]
    /\ exists = [m \in Messages |-> TRUE]
    /\ pins = [c \in Channels |-> << >>]
    /\ pendingReact = ZeroPerMsg
    /\ pendingPinsAdd = ZeroPerMsg
    /\ storage = InitializedFiles
    /\ webhooks = <<[channel |-> 2, alive |-> TRUE]>>
    /\ fmtMsg \in FmtMessages
    /\ fmtOut = NoPayload

NextFormat == ArchiveFormatted

SpecFormat == InitFormat /\ [][NextFormat]_vars

\* C16: for every message archive_message formats in an initialized guild,
\* each attachment has its link field in the payload and the payload is
\* sent, whatever the kinds of the attachments.
C16_EveryAttachmentLinked ==
    fmtOut # NoPayload
        => /\ fmtOut.t = "payload"
           /\ Len(fmtOut.fields) = Len(fmtMsg.attachments)
           /\ \A i \in 1..Len(fmtMsg.attachments) :
                 fmtOut.fields[i] = fmtMsg.attachments[i].url
           /\ sendCalls[1]["cmd"] = 1

\* The message is only a url the platform expanded into one embed with that
\* url and a thumbnail equal to it.
AutoExpanded(message) ==
    /\ Len(message.content) > 0
    /\ Len(message.embeds) = 1
    /\ message.embeds[1].url = Text(message.content)
    /\ message.embeds[1].thumbnail = Text(message.content)
AutoExpandedResult ==
    (fmtOut.t = "payload" /\ AutoExpanded(fmtMsg))
        => fmtOut.image = Text(fmtMsg.content) /\ fmtOut.embeds = << >>
UrlInContent(embed, content) == embed.url.t = "text" /\ In(embed.url.c, content)

\* C17 as stated: the secondary embeds are the original embeds, in order,
\* minus every embed whose url is empty and every embed whose url occurs in
\* the content; an auto-expanded url gives the main image and no secondary
\* embed.
C17_SecondaryEmbedsOriginal ==
    /\ fmtOut.t = "payload"
          => fmtOut.embeds =
                SelectSeq(fmtMsg.embeds,
                          LAMBDA e : e.url.t # "empty"
                                       /\ ~UrlInContent(e, fmtMsg.content))
    /\ AutoExpandedResult
\* C17 amended: the secondary embeds are the original embeds, in order,
\* minus every embed whose url is set and occurs in the content (an embed
\* without a url is kept); an auto-expanded url gives the main image and no
\* secondary embed.
C17_SecondaryEmbeds ==
    /\ fmtOut.t = "payload"
          => fmtOut.embeds =
                SelectSeq(fmtMsg.embeds,
                          LAMBDA e : ~UrlInContent(e, fmtMsg.content))
    /\ AutoExpandedResult
\* A payload that kept an embed without a url and dropped one whose url is
\* in the content.
C17_Witness ==
    /\ fmtOut.t = "payload"
    /\ Len(fmtMsg.embeds) = 2
    /\ fmtMsg.embeds[1].url = EmbedEmpty
    /\ UrlInContent(fmtMsg.embeds[2], fmtMsg.content)
    /\ fmtOut.embeds = <<fmtMsg.embeds[1]>>

(***************************************************************************)
(* One external reaction and everything the bot's own effects feed back:   *)
(* the marker reaction as a reaction-added event, the native pin as a      *)
(* pins_add message, the webhook post and the notice as ordinary messages. *)
(* The gateway delivers every queued event and the event loop resumes      *)
(* every suspended coroutine, hence the weak fairness on the bot's steps.  *)
(***************************************************************************)
RECURSIVE SumOver(_, _)
SumOver(f, S) ==
    IF S = {} THEN 0
    ELSE LET m == CHOOSE x \in S : TRUE
         IN Total(f, m) + SumOver(f, S \ {m})
\* Messages the bot has sent: webhook posts and notices.
BotMessages == SumOver(sendCalls, Messages) + SumOver(notices, Messages)

\* The one external event: a user adds the pushpin that was missing.
UserReactsOnce(m) ==
    /\ UserCount(m) = InitCount
    /\ pendingReact[m] = 0
    /\ UserReacts(m)

\* Lines 282-283: a message of the bot's own arrives at on_message; its
\* type is not pins_add, the handler returns.
OnBotMessage ==
    /\ postsSeen < BotMessages
    /\ postsSeen' = postsSeen + 1
    /\ UNCHANGED <<cfgVars, platVars, evVars, hVars, obsVars, histVars, fmtMsg, fmtOut>>

BotSteps ==
    \/ \E h \in ReactHandlers, m \in Messages : ReactDispatch(h, m)
    \/ \E h \in ReactHandlers : ReactFetch(h)
    \/ \E h \in ReactHandlers : ReactAddReaction(h)
    \/ \E h \in ReactHandlers : ReactPin(h)
    \/ \E m \in Messages : MsgDispatch(m)
    \/ MsgFetch
    \/ MsgPins
    \/ MsgUnpin
    \/ OnBotMessage

NextCascade ==
    \/ \E m \in Messages : UserReactsOnce(m)
    \/ BotSteps

SpecCascade == Init /\ [][NextCascade]_vars /\ WF_vars(BotSteps)

\* No event is pending and no handler is running.
Quiescent ==
    /\ pendingReact = ZeroPerMsg
    /\ pendingPinsAdd = ZeroPerMsg
    /\ postsSeen = BotMessages
    /\ \A h \in ReactHandlers : Free(reactH[h].pc)
    /\ Free(msgH.pc)

\* C20: from one external reaction-added event, the events the bot causes
\* itself lead to no second native pin call, and the system ends up, and
\* stays, in a state with no pending event and no running handler.
C20_NoCascade ==
    /\ [](\A m \in Messages : pinCalls[m] <= 1)
    /\ <>[]Quiescent
\* The whole feedback has been consumed after a promotion: the marker event,
\* the pins_add message and both webhook posts.
C20_Witness ==
    /\ Quiescent
    /\ \E m \in Messages :
          /\ reactions[m].me
          /\ pinCalls[m] = 1
          /\ InSeq(pins[ChannelOf(m)], m)
          /\ sendCalls[m]["pins_add"] = 1
    /\ postsSeen = 2

====
